---- MODULE Spec2Model ----
\* Three specifications, one per source file:
\*   Spec          WebXRLightEstimation (src/unnamed/part_000): the attach /
\*                 frame tick / reflection cube map / dispose lifecycle of the
\*                 light-estimation feature, with the host objects it talks
\*                 to (the XR session's probe requests, the probe's event
\*                 listeners, the XRWebGLBinding, the frame)
\*   MaterialSpec  IBLShadowsPluginMaterial (iblShadowsPluginMaterial.ts)
\*   BuildSpec     the build-configuration script (src/unnamed/part_001)
\* Each one leaves the variables of the other two at their idle values.
EXTENDS Integers, Sequences, FiniteSets, TLC

\* ---------------------------------------------------------------- bounds

\* reads of the reflectionCubeMap accessor followed between two
\* 'reflectionchange' notifications
MaxAccess == 2
\* distinct non-null estimates a frame may hand out
NumEstimates == 2
\* cube maps the host binding hands out in one run
MaxTextures == 2
\* dispose() calls followed in one run
MaxDispose == 2
\* shadow opacities 0..MaxOpacity a caller may set
MaxOpacity == 1
\* shadow textures 1..NumShadowTextures a caller may set
NumShadowTextures == 1
\* the engine's render width and height range over 1..MaxRenderSize
MaxRenderSize == 1
\* modules listed in config.modules
MaxModules == 2

\* ---------------------------------------------------------------- values

\* the null reference (Nullable<T> fields are initialised to it)
Null == 0

\* options.reflectionFormatSRGBA8 is boolean | undefined
OptionValues == {"true", "false", "undefined"}
\* XRSession.preferredReflectionFormat: an XRReflectionFormat, or missing
PreferredValues == {"srgba8", "rgba16f", "null", "undefined"}
\* the context kinds the rendering canvas can hand out
ContextKinds == {"webgl2", "webgl"}
\* the value XRFrame.getLightEstimate may return (null while none is ready)
Estimates == 0..NumEstimates

VARIABLES
    options,                    \* constructor argument, readonly
    preferredReflectionFormat,  \* session.preferredReflectionFormat
    canvasContexts,             \* context kinds canvas.getContext can give
    attached,                   \* base feature: attached flag
    isDisposed,                 \* base feature: disposed flag
    _xrLightProbe,
    _xrLightEstimate,
    _xrWebGLBinding,
    _reflectionCubeMap,
    requests,                   \* probe requests issued to the session
    listeners,                  \* probes carrying our 'reflectionchange' listener
    texturesMade,               \* cube maps the binding has handed out
    cubeMapCalls,               \* getReflectionCubeMap calls since the last notification
    accessLog,                  \* accessor results since the last notification
    readWithProbe,              \* probes that were stored during an accessor read
    disposeCalls,               \* dispose() calls made so far
    ev,                         \* the last operation: its result and its host calls
    \* IBLShadowsPluginMaterial
    plugin,                     \* the plugin's fields and the kind of its material
    defines,                    \* the MaterialIBLShadowsRenderDefines last prepared
    uniformBuffer,              \* what the uniform buffer holds
    renderSize,                 \* the engine's <<render width, render height>>
    pev,                        \* the plugin's last operation and its result
    \* build configuration script
    configJson,                 \* config.json as required by the script
    configComputed,             \* config.computed once set
    settingsComputed,           \* per module: settings.computed and library.computed
    mapIndex                    \* modules the map callback has handled

vars == <<options, preferredReflectionFormat, canvasContexts, attached, isDisposed,
          _xrLightProbe, _xrLightEstimate, _xrWebGLBinding, _reflectionCubeMap,
          requests, listeners, texturesMade, cubeMapCalls, accessLog,
          readWithProbe, disposeCalls, ev,
          plugin, defines, uniformBuffer, renderSize, pev,
          configJson, configComputed, settingsComputed, mapIndex>>

lightVars == <<options, preferredReflectionFormat, canvasContexts, attached, isDisposed,
               _xrLightProbe, _xrLightEstimate, _xrWebGLBinding, _reflectionCubeMap,
               requests, listeners, texturesMade, cubeMapCalls, accessLog,
               readWithProbe, disposeCalls, ev>>
materialVars == <<plugin, defines, uniformBuffer, renderSize, pev>>
buildVars == <<configJson, configComputed, settingsComputed, mapIndex>>

config == <<options, preferredReflectionFormat, canvasContexts>>
base == <<attached, isDisposed>>
fields == <<_xrLightProbe, _xrLightEstimate, _xrWebGLBinding, _reflectionCubeMap>>
host == <<requests, listeners, texturesMade>>
history == <<cubeMapCalls, accessLog, readWithProbe, disposeCalls>>

\* one call made on a host object
Call(fn, probe, format, result) ==
    [fn |-> fn, probe |-> probe, format |-> format, result |-> result]

\* what an operation reports: its name, a boolean result (attach), a
\* reference result (the accessor), whether it threw, and its host calls
Event(op, ok, val, threw, calls) ==
    [op |-> op, ok |-> ok, val |-> val, threw |-> threw, calls |-> calls]

\* ------------------------------------------------------- pure expressions

\* JavaScript's ToBoolean of a boolean | undefined option
ToBoolean(v) == v = "true"

\* a ?? b
NullishCoalesce(a, b) == IF a \in {"null", "undefined"} THEN b ELSE a

ReflectionFormatIgnoringOption(opt, preferred) ==
    NullishCoalesce(preferred, "srgba8")

\* the reflectionFormat expression of attach()
ReflectionFormat(opt, preferred) ==
    IF ToBoolean(opt) THEN "srgba8" ELSE NullishCoalesce(preferred, "srgba8")

\* the probes the session has handed out
ResolvedProbes == {i \in 1..Len(requests) : requests[i].status = "resolved"}

\* ------------------------------------------------------------ accessors

xrLightProbe == _xrLightProbe

xrLightingEstimate == _xrLightEstimate

\* the light-estimation feature before any use, with one fixed configuration
LightIdle ==
    /\ options = [reflectionFormatSRGBA8 |-> "undefined"]
    /\ preferredReflectionFormat = "undefined"
    /\ canvasContexts = {}
    /\ attached = FALSE
    /\ isDisposed = FALSE
    /\ _xrLightProbe = Null
    /\ _xrLightEstimate = Null
    /\ _xrWebGLBinding = "null"
    /\ _reflectionCubeMap = Null
    /\ requests = <<>>
    /\ listeners = {}
    /\ texturesMade = 0
    /\ cubeMapCalls = 0
    /\ accessLog = <<>>
    /\ readWithProbe = {}
    /\ disposeCalls = 0
    /\ ev = Event("constructor", FALSE, Null, FALSE, <<>>)

\* no plugin in use
MaterialIdle ==
    /\ plugin = [material |-> "Material"]
    /\ defines = [RENDER_WITH_IBL_SHADOWS |-> FALSE]
    /\ uniformBuffer = <<>>
    /\ renderSize = <<1, 1>>
    /\ pev = [op |-> "none"]

\* the build script not run
BuildIdle ==
    /\ configJson = <<>>
    /\ configComputed = <<>>
    /\ settingsComputed = <<>>
    /\ mapIndex = 0

Init ==
    /\ MaterialIdle
    /\ BuildIdle
    /\ options \in [reflectionFormatSRGBA8 : OptionValues]
    /\ preferredReflectionFormat \in PreferredValues
    /\ canvasContexts \in SUBSET ContextKinds
    /\ attached = FALSE
    /\ isDisposed = FALSE
    /\ _xrLightProbe = Null
    /\ _xrLightEstimate = Null
    /\ _xrWebGLBinding = "null"
    /\ _reflectionCubeMap = Null
    /\ requests = <<>>
    /\ listeners = {}
    /\ texturesMade = 0
    /\ cubeMapCalls = 0
    /\ accessLog = <<>>
    /\ readWithProbe = {}
    /\ disposeCalls = 0
    /\ ev = Event("constructor", FALSE, Null, FALSE, <<>>)

\* ------------------------------------------------------------ base feature

\* super.attach(): refuses when already attached (or disposed)
super_attach == ~attached /\ ~isDisposed

\* super.dispose(): the base teardown
super_dispose == attached' = FALSE /\ isDisposed' = TRUE

\* the feature manager delivers frame ticks to an attached feature
FrameTickDelivered == attached

\* ------------------------------------------------------------------ attach

attach_ignoringBase ==
    LET fmt == ReflectionFormat(options.reflectionFormatSRGBA8, preferredReflectionFormat)
        id == Len(requests) + 1
    IN  /\ Len(requests) < 2
        /\ attached' = (attached \/ super_attach)
        /\ requests' = Append(requests, [reflectionFormat |-> fmt, status |-> "pending"])
        /\ ev' = Event("attach", super_attach, Null, FALSE,
                       <<Call("requestLightProbe", Null, fmt, id)>>)
        /\ UNCHANGED <<config, isDisposed, fields, listeners, texturesMade, history>>

attach_awaiting ==
    IF ~super_attach
    THEN /\ ev' = Event("attach", FALSE, Null, FALSE, <<>>)
         /\ UNCHANGED <<config, base, fields, host, history>>
    ELSE LET fmt == ReflectionFormat(options.reflectionFormatSRGBA8, preferredReflectionFormat)
             id == Len(requests) + 1
         IN  /\ attached' = TRUE
             /\ requests' = Append(requests, [reflectionFormat |-> fmt, status |-> "resolved"])
             /\ _xrLightProbe' = id
             /\ ev' = Event("attach", TRUE, Null, FALSE,
                            <<Call("requestLightProbe", Null, fmt, id)>>)
             /\ UNCHANGED <<config, isDisposed, _xrLightEstimate, _xrWebGLBinding,
                            _reflectionCubeMap, listeners, texturesMade, history>>

\* attach()
attach ==
    IF ~super_attach
    THEN /\ ev' = Event("attach", FALSE, Null, FALSE, <<>>)
         /\ UNCHANGED <<config, base, fields, host, history>>
    ELSE LET fmt == ReflectionFormat(options.reflectionFormatSRGBA8, preferredReflectionFormat)
             id == Len(requests) + 1
         IN  /\ attached' = TRUE
             /\ requests' = Append(requests, [reflectionFormat |-> fmt, status |-> "pending"])
             /\ ev' = Event("attach", TRUE, Null, FALSE,
                            <<Call("requestLightProbe", Null, fmt, id)>>)
             /\ UNCHANGED <<config, isDisposed, fields, listeners, texturesMade, history>>

requestLightProbe_then_guarded(i) ==
    /\ requests[i].status = "pending"
    /\ requests' = [requests EXCEPT ![i].status = "resolved"]
    /\ _xrLightProbe' = IF isDisposed THEN _xrLightProbe ELSE i
    /\ ev' = Event("then", FALSE, i, FALSE, <<>>)
    /\ UNCHANGED <<config, base, _xrLightEstimate, _xrWebGLBinding, _reflectionCubeMap,
                   listeners, texturesMade, history>>

\* the .then callback of the probe request: the session resolves request i
\* with a new XRLightProbe (named by the request's index)
requestLightProbe_then(i) ==
    /\ requests[i].status = "pending"
    /\ requests' = [requests EXCEPT ![i].status = "resolved"]
    /\ _xrLightProbe' = i
    /\ ev' = Event("then", FALSE, i, FALSE, <<>>)
    /\ UNCHANGED <<config, base, _xrLightEstimate, _xrWebGLBinding, _reflectionCubeMap,
                   listeners, texturesMade, history>>

requestLightProbe_rejected_storesReason(i) ==
    /\ requests[i].status = "pending"
    /\ requests' = [requests EXCEPT ![i].status = "rejected"]
    /\ _xrLightProbe' = i
    /\ ev' = Event("rejected", FALSE, Null, FALSE, <<>>)
    /\ UNCHANGED <<config, base, _xrLightEstimate, _xrWebGLBinding, _reflectionCubeMap,
                   listeners, texturesMade, history>>

requestLightProbe_rejected_retry(i) ==
    LET fmt == ReflectionFormat(options.reflectionFormatSRGBA8, preferredReflectionFormat)
    IN  /\ requests[i].status = "pending"
        /\ Len(requests) < 3
        /\ requests' = Append([requests EXCEPT ![i].status = "rejected"],
                              [reflectionFormat |-> fmt, status |-> "pending"])
        /\ ev' = Event("rejected", FALSE, Null, FALSE,
                       <<Call("requestLightProbe", Null, fmt, Len(requests) + 1)>>)
        /\ UNCHANGED <<config, base, fields, listeners, texturesMade, history>>

\* the session rejects request i: the promise has no rejection handler
requestLightProbe_rejected(i) ==
    /\ requests[i].status = "pending"
    /\ requests' = [requests EXCEPT ![i].status = "rejected"]
    /\ ev' = Event("rejected", FALSE, Null, FALSE, <<>>)
    /\ UNCHANGED <<config, base, fields, listeners, texturesMade, history>>

\* -------------------------------------------------------------- frame tick

_onXRFrame_unguarded(e) ==
    /\ FrameTickDelivered
    /\ _xrLightEstimate' = e
    /\ ev' = Event("_onXRFrame", FALSE, Null, FALSE,
                   <<Call("getLightEstimate", _xrLightProbe, "", e)>>)
    /\ UNCHANGED <<config, base, _xrLightProbe, _xrWebGLBinding, _reflectionCubeMap,
                   host, history>>

_onXRFrame_keepFirst(e) ==
    /\ FrameTickDelivered
    /\ IF _xrLightProbe # Null
       THEN /\ _xrLightEstimate' = IF _xrLightEstimate = Null THEN e ELSE _xrLightEstimate
            /\ ev' = Event("_onXRFrame", FALSE, Null, FALSE,
                           <<Call("getLightEstimate", _xrLightProbe, "", e)>>)
       ELSE /\ _xrLightEstimate' = _xrLightEstimate
            /\ ev' = Event("_onXRFrame", FALSE, Null, FALSE, <<>>)
    /\ UNCHANGED <<config, base, _xrLightProbe, _xrWebGLBinding, _reflectionCubeMap,
                   host, history>>

\* _onXRFrame(_xrFrame), where e is what _xrFrame.getLightEstimate returns
_onXRFrame(e) ==
    /\ FrameTickDelivered
    /\ IF _xrLightProbe # Null
       THEN /\ _xrLightEstimate' = e
            /\ ev' = Event("_onXRFrame", FALSE, Null, FALSE,
                           <<Call("getLightEstimate", _xrLightProbe, "", e)>>)
       ELSE /\ _xrLightEstimate' = _xrLightEstimate
            /\ ev' = Event("_onXRFrame", FALSE, Null, FALSE, <<>>)
    /\ UNCHANGED <<config, base, _xrLightProbe, _xrWebGLBinding, _reflectionCubeMap,
                   host, history>>

\* ------------------------------------------------------- graphics binding

\* canvas.getContext("webgl2"), falling back to canvas.getContext("webgl");
\* "null" when the canvas gives neither
CanvasContext ==
    IF "webgl2" \in canvasContexts THEN "webgl2"
    ELSE IF "webgl" \in canvasContexts THEN "webgl"
    ELSE "null"

\* _getXRGLBinding(): the binding held after the call, created from the
\* canvas context on first use; "null" when new XRWebGLBinding(session, null)
\* throws for want of a context
_getXRGLBinding ==
    IF _xrWebGLBinding = "null" THEN CanvasContext ELSE _xrWebGLBinding

\* the host calls _getXRGLBinding makes
BindingCalls ==
    IF _xrWebGLBinding = "null" /\ CanvasContext # "null"
    THEN <<Call("XRWebGLBinding", Null, CanvasContext, Null)>>
    ELSE <<>>

\* _updateReflectionCubeMap(), the 'reflectionchange' listener, run with
\* `this` bound to the feature (thisIsFeature) or, as the event dispatch of an
\* unbound method does, to the event target. It gives the fields after the
\* call: without the feature as `this`, this._getXRGLBinding is no function
\* and the listener throws before touching anything.
_updateReflectionCubeMap(thisIsFeature) ==
    IF thisIsFeature /\ _getXRGLBinding # "null" /\ texturesMade < MaxTextures
    THEN [binding |-> _getXRGLBinding, cubeMap |-> texturesMade + 1, made |-> 1,
          threw |-> FALSE,
          calls |-> BindingCalls \o
                    <<Call("getReflectionCubeMap", _xrLightProbe, "", texturesMade + 1)>>]
    ELSE [binding |-> _xrWebGLBinding, cubeMap |-> _reflectionCubeMap, made |-> 0,
          threw |-> TRUE, calls |-> <<>>]

\* ------------------------------------------------- reflectionCubeMap getter

LazyInitCondition_alwaysTrue(current) == TRUE

LazyInitCondition_comparison(current) == current = Null

\* the condition of the lazy-initialisation `if`: the expression
\* `this._reflectionCubeMap = null` has the value it assigns, null, whatever
\* the field held (current), and null is falsy
LazyInitCondition(current) == Null # Null

\* the body of the lazy-initialisation `if`, entered with the field just
\* set to null: materialise the cube map and register the listener
LazyInit ==
    LET binding == _getXRGLBinding
        tex == texturesMade + 1
    IN  IF binding = "null"
        THEN /\ _reflectionCubeMap' = Null
             /\ ev' = Event("reflectionCubeMap", FALSE, Null, TRUE, <<>>)
             /\ accessLog' = accessLog
             /\ UNCHANGED <<_xrWebGLBinding, listeners, texturesMade, cubeMapCalls>>
        ELSE /\ _xrWebGLBinding' = binding
             /\ _reflectionCubeMap' = tex
             /\ texturesMade' = tex
             /\ cubeMapCalls' = cubeMapCalls + 1
             /\ listeners' = listeners \cup {_xrLightProbe}
             /\ accessLog' = Append(accessLog, tex)
             /\ ev' = Event("reflectionCubeMap", FALSE, tex, FALSE,
                            BindingCalls \o
                            <<Call("getReflectionCubeMap", _xrLightProbe, "", tex),
                              Call("addEventListener", _xrLightProbe, "", Null)>>)

reflectionCubeMap_noProbeCheck ==
    /\ texturesMade < MaxTextures
    /\ Len(accessLog) < MaxAccess
    /\ readWithProbe' = readWithProbe
    /\ IF _reflectionCubeMap = Null
       THEN LazyInit
       ELSE /\ accessLog' = Append(accessLog, _reflectionCubeMap)
            /\ ev' = Event("reflectionCubeMap", FALSE, _reflectionCubeMap, FALSE, <<>>)
            /\ UNCHANGED <<_xrWebGLBinding, _reflectionCubeMap, listeners, texturesMade,
                           cubeMapCalls>>
    /\ UNCHANGED <<config, base, _xrLightProbe, _xrLightEstimate, requests,
                           disposeCalls>>

\* get reflectionCubeMap()
reflectionCubeMap ==
    /\ texturesMade < MaxTextures
    /\ IF _xrLightProbe = Null
       THEN /\ ev' = Event("reflectionCubeMap", FALSE, Null, FALSE, <<>>)
            /\ UNCHANGED <<config, base, fields, host, history>>
       ELSE /\ Len(accessLog) < MaxAccess
            /\ readWithProbe' = readWithProbe \cup {_xrLightProbe}
            /\ IF LazyInitCondition(_reflectionCubeMap)
               THEN LazyInit
               ELSE /\ _reflectionCubeMap' = Null
                    /\ accessLog' = Append(accessLog, Null)
                    /\ ev' = Event("reflectionCubeMap", FALSE, Null, FALSE, <<>>)
                    /\ UNCHANGED <<_xrWebGLBinding, listeners, texturesMade, cubeMapCalls>>
            /\ UNCHANGED <<config, base, _xrLightProbe, _xrLightEstimate, requests,
                           disposeCalls>>

\* the host fires 'reflectionchange' on probe p: every listener registered
\* on p runs, with the probe as `this`
reflectionchange(p) ==
    /\ p \in ResolvedProbes
    /\ LET r == IF p \in listeners
                THEN _updateReflectionCubeMap(FALSE)
                ELSE [binding |-> _xrWebGLBinding, cubeMap |-> _reflectionCubeMap,
                      made |-> 0, threw |-> FALSE, calls |-> <<>>]
       IN  /\ _xrWebGLBinding' = r.binding
           /\ _reflectionCubeMap' = r.cubeMap
           /\ texturesMade' = texturesMade + r.made
           /\ cubeMapCalls' = r.made
           /\ ev' = Event("reflectionchange", FALSE, p, r.threw, r.calls)
    /\ accessLog' = <<>>
    /\ UNCHANGED <<config, base, _xrLightProbe, _xrLightEstimate, requests, listeners,
                   readWithProbe, disposeCalls>>

\* ----------------------------------------------------------------- dispose

dispose_keepsProbe ==
    /\ disposeCalls < MaxDispose
    /\ disposeCalls' = disposeCalls + 1
    /\ super_dispose
    /\ IF _xrLightProbe # Null /\ _reflectionCubeMap # Null
       THEN /\ listeners' = listeners \ {_xrLightProbe}
            /\ ev' = Event("dispose", FALSE, Null, FALSE,
                           <<Call("removeEventListener", _xrLightProbe, "", Null)>>)
       ELSE /\ listeners' = listeners
            /\ ev' = Event("dispose", FALSE, Null, FALSE, <<>>)
    /\ UNCHANGED <<config, fields, requests, texturesMade, cubeMapCalls, accessLog,
                   readWithProbe>>

dispose_alwaysRemoves ==
    /\ disposeCalls < MaxDispose
    /\ disposeCalls' = disposeCalls + 1
    /\ super_dispose
    /\ listeners' = listeners \ {_xrLightProbe}
    /\ ev' = Event("dispose", FALSE, Null, FALSE,
                   <<Call("removeEventListener", _xrLightProbe, "", Null)>>)
    /\ _xrLightProbe' = Null
    /\ UNCHANGED <<config, _xrLightEstimate, _xrWebGLBinding, _reflectionCubeMap,
                   requests, texturesMade, cubeMapCalls, accessLog, readWithProbe>>

dispose_clearsEstimate ==
    /\ disposeCalls < MaxDispose
    /\ disposeCalls' = disposeCalls + 1
    /\ super_dispose
    /\ IF _xrLightProbe # Null /\ _reflectionCubeMap # Null
       THEN /\ listeners' = listeners \ {_xrLightProbe}
            /\ ev' = Event("dispose", FALSE, Null, FALSE,
                           <<Call("removeEventListener", _xrLightProbe, "", Null)>>)
       ELSE /\ listeners' = listeners
            /\ ev' = Event("dispose", FALSE, Null, FALSE, <<>>)
    /\ _xrLightProbe' = Null
    /\ _xrLightEstimate' = Null
    /\ UNCHANGED <<config, _xrWebGLBinding, _reflectionCubeMap,
                   requests, texturesMade, cubeMapCalls, accessLog, readWithProbe>>

\* dispose()
dispose ==
    /\ disposeCalls < MaxDispose
    /\ disposeCalls' = disposeCalls + 1
    /\ super_dispose
    /\ IF _xrLightProbe # Null /\ _reflectionCubeMap # Null
       THEN /\ listeners' = listeners \ {_xrLightProbe}
            /\ ev' = Event("dispose", FALSE, Null, FALSE,
                           <<Call("removeEventListener", _xrLightProbe, "", Null)>>)
       ELSE /\ listeners' = listeners
            /\ ev' = Event("dispose", FALSE, Null, FALSE, <<>>)
    /\ _xrLightProbe' = Null
    /\ UNCHANGED <<config, _xrLightEstimate, _xrWebGLBinding, _reflectionCubeMap,
                   requests, texturesMade, cubeMapCalls, accessLog, readWithProbe>>

\* ------------------------------------------------------------ the program

Next ==
    \/ attach /\ UNCHANGED <<materialVars, buildVars>>
    \/ \E i \in 1..Len(requests) :
           requestLightProbe_then(i) /\ UNCHANGED <<materialVars, buildVars>>
    \/ \E i \in 1..Len(requests) :
           requestLightProbe_rejected(i) /\ UNCHANGED <<materialVars, buildVars>>
    \/ \E e \in Estimates : _onXRFrame(e) /\ UNCHANGED <<materialVars, buildVars>>
    \/ reflectionCubeMap /\ UNCHANGED <<materialVars, buildVars>>
    \/ \E p \in ResolvedProbes :
           reflectionchange(p) /\ UNCHANGED <<materialVars, buildVars>>
    \/ dispose /\ UNCHANGED <<materialVars, buildVars>>

Spec == Init /\ [][Next]_vars

\* ------------------------------------------------ IBLShadowsPluginMaterial

\* shadowOpacity's initial value, 1.0
DefaultShadowOpacity == 1

\* what the plugin's material may be an instance of
MaterialKinds == {"Material", "StandardMaterial", "PBRBaseMaterial"}
ShaderTypes == {"vertex", "fragment", "compute"}
ShaderLanguages == {"GLSL", "WGSL"}

\* a uniform buffer nothing was written to
EmptyUniformBuffer ==
    [iblShadowsTexture |-> 0, renderTargetSize |-> <<0, 0>>, shadowOpacity |-> 0 - 1]

\* the result of a plugin operation: its name, the arguments and result of
\* getCustomCode, and the uniform buffer calls of bindForSubMesh
PluginEvent(op, shaderType, shaderLanguage, isNull, frag, calls) ==
    [op |-> op, shaderType |-> shaderType, shaderLanguage |-> shaderLanguage,
     isNull |-> isNull, frag |-> frag, calls |-> calls]

PlainPluginEvent(op) == PluginEvent(op, "", "", FALSE, <<>>, <<>>)

\* the plugin as constructed on a material of some kind, with an engine of
\* some render size
MaterialInit ==
    /\ LightIdle
    /\ BuildIdle
    /\ plugin \in [material : MaterialKinds, _isEnabled : {FALSE},
                   shadowOpacity : {DefaultShadowOpacity}, iblShadowsTexture : {0},
                   texturesDirty : {FALSE}]
    /\ defines = [RENDER_WITH_IBL_SHADOWS |-> FALSE]
    /\ uniformBuffer = EmptyUniformBuffer
    /\ renderSize \in (1..MaxRenderSize) \X (1..MaxRenderSize)
    /\ pev = PlainPluginEvent("constructor")

\* plugin.isEnabled = v: the property expanded from _isEnabled stores v and
\* calls _markAllSubMeshesAsTexturesDirty
set_isEnabled(v) ==
    /\ plugin' = [plugin EXCEPT !._isEnabled = v, !.texturesDirty = TRUE]
    /\ pev' = PlainPluginEvent("set isEnabled")
    /\ UNCHANGED <<defines, uniformBuffer, renderSize>>

\* plugin.shadowOpacity = o
set_shadowOpacity(o) ==
    /\ plugin' = [plugin EXCEPT !.shadowOpacity = o]
    /\ pev' = PlainPluginEvent("set shadowOpacity")
    /\ UNCHANGED <<defines, uniformBuffer, renderSize>>

\* plugin.iblShadowsTexture = t
set_iblShadowsTexture(t) ==
    /\ plugin' = [plugin EXCEPT !.iblShadowsTexture = t]
    /\ pev' = PlainPluginEvent("set iblShadowsTexture")
    /\ UNCHANGED <<defines, uniformBuffer, renderSize>>

\* the engine's render target changes size
resize(w, h) ==
    /\ renderSize' = <<w, h>>
    /\ pev' = PlainPluginEvent("resize")
    /\ UNCHANGED <<plugin, defines, uniformBuffer>>

prepareDefines_constant ==
    /\ defines' = [defines EXCEPT !.RENDER_WITH_IBL_SHADOWS = TRUE]
    /\ pev' = PlainPluginEvent("prepareDefines")
    /\ UNCHANGED <<plugin, uniformBuffer, renderSize>>

\* prepareDefines(defines)
prepareDefines ==
    /\ defines' = [defines EXCEPT !.RENDER_WITH_IBL_SHADOWS = plugin._isEnabled]
    /\ pev' = PlainPluginEvent("prepareDefines")
    /\ UNCHANGED <<plugin, uniformBuffer, renderSize>>

bindForSubMesh_unguarded ==
    /\ uniformBuffer' = [iblShadowsTexture |-> plugin.iblShadowsTexture,
                         renderTargetSize |-> renderSize,
                         shadowOpacity |-> plugin.shadowOpacity]
    /\ pev' = PluginEvent("bindForSubMesh", "", "", FALSE, <<>>,
                          <<"bindTexture", "updateFloat2", "updateFloat">>)
    /\ UNCHANGED <<plugin, defines, renderSize>>

\* bindForSubMesh(uniformBuffer)
bindForSubMesh ==
    /\ IF plugin._isEnabled
       THEN /\ uniformBuffer' = [iblShadowsTexture |-> plugin.iblShadowsTexture,
                                 renderTargetSize |-> renderSize,
                                 shadowOpacity |-> plugin.shadowOpacity]
            /\ pev' = PluginEvent("bindForSubMesh", "", "", FALSE, <<>>,
                                  <<"bindTexture", "updateFloat2", "updateFloat">>)
       ELSE /\ uniformBuffer' = uniformBuffer
            /\ pev' = PluginEvent("bindForSubMesh", "", "", FALSE, <<>>, <<>>)
    /\ UNCHANGED <<plugin, defines, renderSize>>

\* the frag map getCustomCode builds: the language's definitions and one
\* injection point chosen by `this._material instanceof PBRBaseMaterial`;
\* each value names the shader snippet
FragmentCode(shaderLanguage, material) ==
    LET lang == IF shaderLanguage = "WGSL" THEN "wgsl" ELSE "glsl"
    IN  ("CUSTOM_FRAGMENT_DEFINITIONS" :> <<lang, "computeIndirectShadow">>)
        @@ (IF material = "PBRBaseMaterial"
            THEN "CUSTOM_FRAGMENT_BEFORE_FINALCOLORCOMPOSITION" :> <<lang, "irradiance">>
            ELSE "CUSTOM_FRAGMENT_BEFORE_FRAGCOLOR" :> <<lang, "color">>)

getCustomCode_bothPoints(shaderType, shaderLanguage) ==
    LET lang == IF shaderLanguage = "WGSL" THEN "wgsl" ELSE "glsl"
        frag == FragmentCode(shaderLanguage, plugin.material)
                @@ ("CUSTOM_FRAGMENT_BEFORE_FRAGCOLOR" :> <<lang, "color">>)
    IN  /\ pev' = PluginEvent("getCustomCode", shaderType, shaderLanguage,
                              shaderType = "vertex",
                              IF shaderType = "vertex" THEN <<>> ELSE frag, <<>>)
        /\ UNCHANGED <<plugin, defines, uniformBuffer, renderSize>>

\* getCustomCode(shaderType, shaderLanguage): null for "vertex", the frag
\* map otherwise
getCustomCode(shaderType, shaderLanguage) ==
    LET frag == FragmentCode(shaderLanguage, plugin.material)
    IN  /\ pev' = PluginEvent("getCustomCode", shaderType, shaderLanguage,
                              shaderType = "vertex",
                              IF shaderType = "vertex" THEN <<>> ELSE frag, <<>>)
        /\ UNCHANGED <<plugin, defines, uniformBuffer, renderSize>>

MaterialNext ==
    \/ \E v \in BOOLEAN : set_isEnabled(v) /\ UNCHANGED <<lightVars, buildVars>>
    \/ \E o \in 0..MaxOpacity : set_shadowOpacity(o) /\ UNCHANGED <<lightVars, buildVars>>
    \/ \E t \in 1..NumShadowTextures :
           set_iblShadowsTexture(t) /\ UNCHANGED <<lightVars, buildVars>>
    \/ \E w, h \in 1..MaxRenderSize : resize(w, h) /\ UNCHANGED <<lightVars, buildVars>>
    \/ prepareDefines /\ UNCHANGED <<lightVars, buildVars>>
    \/ bindForSubMesh /\ UNCHANGED <<lightVars, buildVars>>
    \/ \E st \in ShaderTypes, sl \in ShaderLanguages :
           getCustomCode(st, sl) /\ UNCHANGED <<lightVars, buildVars>>

MaterialSpec == MaterialInit /\ [][MaterialNext]_vars

\* ------------------------------------------------ build configuration script

\* A path is the sequence of its segments; an absolute path starts with "/",
\* and the empty string is the empty sequence.

\* module names config.modules may list, in the order it lists them
ModuleNames == <<"core", "gui", "loaders", "serializers">>

\* an optional setting of config.json: left out (undefined) or a string
Undefined == [defined |-> FALSE, value |-> <<>>]
Defined(path) == [defined |-> TRUE, value |-> path]

\* JavaScript's ToBoolean of an optional string: undefined and "" are falsy
Truthy(opt) == opt.defined /\ opt.value # <<>>

\* path.normalize: "." and empty segments dropped, ".." removes the segment
\* before it (and stays at the root of an absolute path)
RECURSIVE NormalizeOnto(_, _)
NormalizeOnto(done, rest) ==
    IF rest = <<>> THEN done
    ELSE LET seg == Head(rest)
         IN  IF seg \in {".", ""} THEN NormalizeOnto(done, Tail(rest))
             ELSE IF seg = ".."
             THEN IF done = <<>> \/ done[Len(done)] = ".."
                  THEN NormalizeOnto(Append(done, ".."), Tail(rest))
                  ELSE IF done = <<"/">>
                  THEN NormalizeOnto(done, Tail(rest))
                  ELSE NormalizeOnto(SubSeq(done, 1, Len(done) - 1), Tail(rest))
             ELSE NormalizeOnto(Append(done, seg), Tail(rest))

Normalize(path) == NormalizeOnto(<<>>, path)

\* path.join(a, b)
PathJoin(a, b) == Normalize(a \o b)

\* path.resolve(from, to): `to` alone when it is absolute
PathResolve(from, to) ==
    IF to # <<>> /\ to[1] = "/" THEN Normalize(to) ELSE Normalize(from \o to)

\* __dirname of the script
configFolder == <<"/", "repo", "Tools", "Config">>

\* config.build of config.json
ConfigBuild ==
    [tempDirectory |-> <<".", ".temp">>,
     outputDirectory |-> <<"..", "..", "dist", "preview release">>,
     localDevES6FolderName |-> <<"localDevES6">>,
     localDevUMDFolderName |-> <<"localDevUMD">>,
     sourceES6FolderName |-> <<"sourceES6">>,
     distES6FolderName |-> <<"distES6">>,
     packageES6FolderName |-> <<"packageES6">>]

\* the source layouts of a module: the rootDir of the tsconfig.json the script
\* requires for it, and the libraries its settings list
SourceLayouts ==
    {[rootDir |-> <<".", "src">>,
      libraries |-> <<[entry |-> <<".", "index.ts">>]>>],
     [rootDir |-> <<"..", "shared">>,
      libraries |-> <<[entry |-> <<".", "index.ts">>],
                      [entry |-> <<"Legacy", "legacy.ts">>]>>]}

\* what config.json may say about a module, apart from its main folder
SettingsChoices ==
    [distOutputDirectory : {Undefined, Defined(<<>>), Defined(<<"out">>)},
     packageJSON : {Undefined, Defined(<<>>), Defined(<<"package.json">>)},
     layout : SourceLayouts]

\* config[module]: its build settings, its libraries, and its tsconfig rootDir
ModuleSettings(module, choice) ==
    [build |-> [mainFolder |-> <<".", module>>,
                distOutputDirectory |-> choice.distOutputDirectory,
                packageJSON |-> choice.packageJSON],
     libraries |-> choice.layout.libraries,
     rootDir |-> choice.layout.rootDir]

\* the config.json files listing the first n module names
ConfigFiles(n) ==
    LET names == {ModuleNames[i] : i \in 1..n}
    IN  {[build |-> ConfigBuild, modules |-> SubSeq(ModuleNames, 1, n),
          settings |-> [m \in names |-> ModuleSettings(m, choice[m])]] :
             choice \in [names -> SettingsChoices]}

BuildInit ==
    /\ LightIdle
    /\ MaterialIdle
    /\ \E n \in 1..MaxModules :
        /\ n <= Len(ModuleNames)
        /\ configJson \in ConfigFiles(n)
    /\ configComputed = <<>>
    /\ settingsComputed = <<>>
    /\ mapIndex = 0

\* config.computed as the script sets it
ComputedFolders ==
    LET rootFolder == PathResolve(configFolder, <<"..", "..">>)
        tempFolder == PathResolve(rootFolder, configJson.build.tempDirectory)
    IN  [rootFolder |-> rootFolder,
         tempFolder |-> tempFolder,
         outputFolder |-> PathResolve(configFolder, configJson.build.outputDirectory),
         localDevES6Folder |-> PathJoin(tempFolder, configJson.build.localDevES6FolderName),
         localDevUMDFolder |-> PathJoin(tempFolder, configJson.build.localDevUMDFolderName),
         sourceES6Folder |-> PathJoin(tempFolder, configJson.build.sourceES6FolderName),
         distES6Folder |-> PathJoin(tempFolder, configJson.build.distES6FolderName),
         packageES6Folder |-> PathJoin(tempFolder, configJson.build.packageES6FolderName)]

\* the top of the script: config.computed = {...}
ComputeFolders ==
    /\ configComputed = <<>>
    /\ configComputed' = ComputedFolders
    /\ UNCHANGED <<configJson, settingsComputed, mapIndex>>

ModuleComputed_umdByModule(module) ==
    LET settings == configJson.settings[module]
        c == configComputed
        mainDirectory == PathResolve(c.rootFolder, settings.build.mainFolder)
        distFolder == IF settings.build.distOutputDirectory.defined
                      THEN settings.build.distOutputDirectory.value
                      ELSE <<module>>
        distDirectory == PathJoin(c.outputFolder, distFolder)
        srcDirectory == PathResolve(mainDirectory, settings.rootDir)
    IN  [mainDirectory |-> mainDirectory,
         srcDirectory |-> srcDirectory,
         distDirectory |-> distDirectory,
         localDevES6Directory |-> PathJoin(c.localDevES6Folder, <<module>>),
         localDevUMDDirectory |-> PathJoin(c.localDevUMDFolder, <<module>>),
         sourceES6Directory |-> PathJoin(c.sourceES6Folder, <<module>>),
         distES6Directory |-> PathJoin(c.distES6Folder, <<module>>),
         packageES6Directory |-> PathJoin(c.packageES6Folder, <<module>>),
         webpackConfigPath |-> PathJoin(mainDirectory, <<"webpack.config.js">>),
         tsConfigPath |-> PathJoin(mainDirectory, <<"tsconfig.json">>),
         packageJSONPath |-> IF Truthy(settings.build.packageJSON)
                             THEN PathJoin(c.rootFolder, settings.build.packageJSON.value)
                             ELSE PathJoin(distDirectory, <<"package.json">>),
         shaderGlob |-> srcDirectory \o <<"**", "*.fx">>,
         shaderTSGlob |-> srcDirectory \o <<"**", "*.fx.ts">>]

\* settings.computed of a module, as the map callback sets it
ModuleComputed(module) ==
    LET settings == configJson.settings[module]
        c == configComputed
        mainDirectory == PathResolve(c.rootFolder, settings.build.mainFolder)
        distFolder == IF settings.build.distOutputDirectory.defined
                      THEN settings.build.distOutputDirectory.value
                      ELSE <<module>>
        distDirectory == PathJoin(c.outputFolder, distFolder)
        srcDirectory == PathResolve(mainDirectory, settings.rootDir)
    IN  [mainDirectory |-> mainDirectory,
         srcDirectory |-> srcDirectory,
         distDirectory |-> distDirectory,
         localDevES6Directory |-> PathJoin(c.localDevES6Folder, <<module>>),
         localDevUMDDirectory |-> PathJoin(c.localDevUMDFolder, distFolder),
         sourceES6Directory |-> PathJoin(c.sourceES6Folder, <<module>>),
         distES6Directory |-> PathJoin(c.distES6Folder, <<module>>),
         packageES6Directory |-> PathJoin(c.packageES6Folder, <<module>>),
         webpackConfigPath |-> PathJoin(mainDirectory, <<"webpack.config.js">>),
         tsConfigPath |-> PathJoin(mainDirectory, <<"tsconfig.json">>),
         packageJSONPath |-> IF Truthy(settings.build.packageJSON)
                             THEN PathJoin(c.rootFolder, settings.build.packageJSON.value)
                             ELSE PathJoin(distDirectory, <<"package.json">>),
         shaderGlob |-> srcDirectory \o <<"**", "*.fx">>,
         shaderTSGlob |-> srcDirectory \o <<"**", "*.fx.ts">>]

\* library.computed of every library of a module
LibrariesComputed(module) ==
    LET libraries == configJson.settings[module].libraries
        srcDirectory == ModuleComputed(module).srcDirectory
    IN  [k \in DOMAIN libraries |->
            [entry |-> libraries[k].entry,
             computed |-> [entryPath |-> PathJoin(srcDirectory, libraries[k].entry)]]]

\* one call of the config.modules.map callback, on the next module
MapCallback ==
    /\ configComputed # <<>>
    /\ mapIndex < Len(configJson.modules)
    /\ LET module == configJson.modules[mapIndex + 1]
       IN  settingsComputed' =
               Append(settingsComputed,
                      [module |-> module, computed |-> ModuleComputed(module),
                       libraries |-> LibrariesComputed(module)])
    /\ mapIndex' = mapIndex + 1
    /\ UNCHANGED <<configJson, configComputed>>

BuildNext ==
    \/ ComputeFolders /\ UNCHANGED <<lightVars, materialVars>>
    \/ MapCallback /\ UNCHANGED <<lightVars, materialVars>>

BuildSpec == BuildInit /\ [][BuildNext]_vars

\* ------------------------------------------------------------- properties

\* C1: a frame tick taken while no probe request has resolved (the stored
\* probe handle is still null) is a no-op: it makes no call on the frame,
\* changes no field, and xrLightingEstimate still gives null after it.
C1_TickBeforeProbeIsNoOp ==
    [][(ev'.op = "_onXRFrame" /\ _xrLightProbe = Null /\ ResolvedProbes = {})
        => /\ ev'.calls = <<>>
           /\ xrLightingEstimate' = Null
           /\ UNCHANGED fields]_vars

C1_Witness ==
    /\ ev.op = "_onXRFrame"
    /\ _xrLightProbe = Null
    /\ Len(requests) = 1
    /\ requests[1].status = "pending"

\* C2: with a probe handle stored, a frame tick makes exactly one call on the
\* frame, getLightEstimate keyed by the stored probe, and xrLightingEstimate
\* gives that call's result after the tick, whatever it held before.
C2_TickOverwritesEstimate ==
    [][(ev'.op = "_onXRFrame" /\ _xrLightProbe # Null)
        => /\ Len(ev'.calls) = 1
           /\ ev'.calls[1].fn = "getLightEstimate"
           /\ ev'.calls[1].probe = _xrLightProbe
           /\ xrLightingEstimate' = ev'.calls[1].result]_vars

C2_Witness ==
    /\ ev.op = "_onXRFrame"
    /\ _xrLightProbe # Null
    /\ Len(ev.calls) = 1
    /\ ev.calls[1].result = NumEstimates
    /\ xrLightingEstimate = NumEstimates

\* C3: when super.attach() returns false, attach() returns false, issues no
\* probe request to the session and leaves the stored probe handle as it was.
C3_FailedAttachIssuesNothing ==
    [][(ev'.op = "attach" /\ ~super_attach)
        => /\ ev'.ok = FALSE
           /\ ev'.calls = <<>>
           /\ requests' = requests
           /\ xrLightProbe' = xrLightProbe]_vars

C3_Witness ==
    /\ ev.op = "attach"
    /\ ~ev.ok
    /\ attached
    /\ Len(requests) = 1

\* C4: when super.attach() succeeds, attach() returns true with the request
\* it issued still pending and the probe handle still unavailable; the
\* handle becomes stored only in the step that resolves a pending request,
\* and it is that request's probe.
C4_AttachDoesNotWait ==
    [][/\ (ev'.op = "attach" /\ super_attach)
           => /\ ev'.ok = TRUE
              /\ xrLightProbe' = Null
              /\ Len(requests') = Len(requests) + 1
              /\ requests'[Len(requests')].status = "pending"
       /\ (xrLightProbe' # xrLightProbe /\ xrLightProbe' # Null)
           => /\ ev'.op = "then"
              /\ xrLightProbe' \in DOMAIN requests
              /\ requests[xrLightProbe'].status = "pending"
              /\ requests'[xrLightProbe'].status = "resolved"]_vars

C4_Witness ==
    /\ ev.op = "attach"
    /\ ev.ok
    /\ xrLightProbe = Null
    /\ requests[Len(requests)].status = "pending"

\* C5: the probe request of a successful attach() carries "srgba8" when
\* options.reflectionFormatSRGBA8 is true, otherwise the session's preferred
\* format when it reports one, otherwise "srgba8".
C5_ReflectionFormatRule ==
    (ev.op = "attach" /\ ev.ok)
    => LET expected ==
               IF options.reflectionFormatSRGBA8 = "true" THEN "srgba8"
               ELSE IF preferredReflectionFormat \in {"srgba8", "rgba16f"}
                    THEN preferredReflectionFormat
                    ELSE "srgba8"
       IN  /\ Len(ev.calls) = 1
           /\ ev.calls[1].fn = "requestLightProbe"
           /\ ev.calls[1].format = expected
           /\ requests[Len(requests)].reflectionFormat = expected

C5_Witness ==
    /\ ev.op = "attach"
    /\ ev.ok
    /\ options.reflectionFormatSRGBA8 = "undefined"
    /\ preferredReflectionFormat = "rgba16f"
    /\ ev.calls[1].format = "rgba16f"

\* C6: a read of reflectionCubeMap taken with no probe handle stored returns
\* null, does not throw, makes no host call, and creates no graphics
\* binding, no cube map and no listener.
C6_NoProbeNoCubeMap ==
    [][(ev'.op = "reflectionCubeMap" /\ _xrLightProbe = Null)
        => /\ ev'.val = Null
           /\ ~ev'.threw
           /\ ev'.calls = <<>>
           /\ UNCHANGED <<_xrWebGLBinding, _reflectionCubeMap, listeners, texturesMade>>]_vars

C6_Witness ==
    /\ ev.op = "reflectionCubeMap"
    /\ _xrLightProbe = Null
    /\ isDisposed
    /\ ResolvedProbes # {}

\* C7: with a probe handle stored and a graphics context to be had, the
\* first read of reflectionCubeMap obtains the binding, calls
\* getReflectionCubeMap on the probe, registers the 'reflectionchange'
\* listener on it and returns the cube map, which is not null.
C7_FirstReadMaterialises ==
    [][(/\ ev'.op = "reflectionCubeMap"
        /\ _xrLightProbe # Null
        /\ _xrLightProbe \notin readWithProbe
        /\ canvasContexts # {})
        => /\ ev'.val # Null
           /\ ev'.val = _reflectionCubeMap'
           /\ _xrWebGLBinding' # "null"
           /\ _xrLightProbe \in listeners'
           /\ \E i \in DOMAIN ev'.calls : ev'.calls[i].fn = "getReflectionCubeMap"]_vars

\* C8: between two 'reflectionchange' notifications the reads of
\* reflectionCubeMap cause at most one getReflectionCubeMap call, and they
\* all return the same reference.
C8_AtMostOneCubeMapPerChange ==
    /\ cubeMapCalls <= 1
    /\ \A i, j \in DOMAIN accessLog : accessLog[i] = accessLog[j]

C8_Witness ==
    /\ Len(accessLog) >= 2
    /\ _xrLightProbe # Null
    /\ ev.op = "reflectionCubeMap"

\* C9: once reflectionCubeMap has been read with a probe stored, a
\* 'reflectionchange' notification on that probe regenerates the cube map
\* (a new getReflectionCubeMap call, a new non-null map in the field), and a
\* frame tick never regenerates it.
C9_RegenerationIsEventDriven ==
    [][/\ (/\ ev'.op = "reflectionchange"
           /\ ev'.val = _xrLightProbe
           /\ _xrLightProbe \in readWithProbe
           /\ canvasContexts # {}
           /\ texturesMade < MaxTextures)
           => /\ \E i \in DOMAIN ev'.calls : ev'.calls[i].fn = "getReflectionCubeMap"
              /\ _reflectionCubeMap' # Null
              /\ _reflectionCubeMap' # _reflectionCubeMap
       /\ ev'.op = "_onXRFrame"
           => /\ _reflectionCubeMap' = _reflectionCubeMap
              /\ texturesMade' = texturesMade]_vars

\* C10: dispose() calls removeEventListener exactly when the listener is
\* registered on the stored probe, and only for that probe; right after it
\* no listener of the feature is left on a probe and xrLightProbe gives null.
C10_DisposeReleases ==
    [][ev'.op = "dispose"
        => /\ xrLightProbe' = Null
           /\ listeners' = {}
           /\ (ev'.calls # <<>>) <=> (_xrLightProbe # Null /\ _xrLightProbe \in listeners)
           /\ Len(ev'.calls) <= 1
           /\ \A i \in DOMAIN ev'.calls :
                  /\ ev'.calls[i].fn = "removeEventListener"
                  /\ ev'.calls[i].probe = _xrLightProbe]_vars

C10_Witness ==
    /\ ev.op = "dispose"
    /\ xrLightProbe = Null
    /\ xrLightingEstimate # Null
    /\ readWithProbe # {}

\* C11: a dispose() call made after an earlier one, with no probe request
\* resolved in between (the handle is still null), does not throw, makes no
\* removeEventListener call and changes no field, flag or host object.
C11_DisposeIdempotent ==
    [][(ev'.op = "dispose" /\ disposeCalls >= 1 /\ xrLightProbe = Null)
        => /\ ~ev'.threw
           /\ ev'.calls = <<>>
           /\ UNCHANGED <<fields, base, host>>]_vars

C11_Witness ==
    /\ ev.op = "dispose"
    /\ disposeCalls >= 2
    /\ Len(requests) = 1
    /\ requests[1].status = "pending"

\* C12: once the probe request has been rejected (and attach() had returned
\* true), no operation throws and xrLightProbe, xrLightingEstimate and
\* reflectionCubeMap give null in every later state.
C12_RejectionLeavesNoProbe ==
    (Len(requests) >= 1 /\ \A i \in DOMAIN requests : requests[i].status = "rejected")
    => /\ attached \/ isDisposed
       /\ xrLightProbe = Null
       /\ xrLightingEstimate = Null
       /\ _reflectionCubeMap = Null
       /\ ~ev.threw
       /\ ev.op = "reflectionCubeMap" => ev.val = Null

C12_Witness ==
    /\ Len(requests) = 1
    /\ requests[1].status = "rejected"
    /\ attached
    /\ ev.op = "reflectionCubeMap"
    /\ ev.val = Null

\* C13: every step changes the number of probe requests issued to the
\* session by one when it is an attach() whose base attach succeeds, and by
\* nothing otherwise (a rejection, a tick, an accessor read, a dispose): the
\* requests issued are as many as the successful attach() calls.
C13_NoRetry ==
    [][Len(requests') =
           Len(requests) + (IF ev'.op = "attach" /\ super_attach THEN 1 ELSE 0)]_vars

C13_Witness ==
    /\ Len(requests) = 1
    /\ requests[1].status = "rejected"
    /\ isDisposed
    /\ ev.op = "reflectionCubeMap"

\* C14: a probe request that resolves after dispose() still stores its probe
\* in the disposed instance: nothing cancels the request and the callback
\* tests no disposed flag.
C14_LateResolveStoresProbe ==
    [][(ev'.op = "then" /\ isDisposed)
        => /\ isDisposed'
           /\ xrLightProbe' # Null
           /\ xrLightProbe' = ev'.val]_vars

C14_Witness ==
    /\ isDisposed
    /\ xrLightProbe # Null
    /\ ev.op = "then"

\* C15 as stated: with a probe stored and a graphics context to be had,
\* every read of reflectionCubeMap calls getReflectionCubeMap and registers
\* the 'reflectionchange' listener again.
C15_GuardAlwaysTrue ==
    [][(ev'.op = "reflectionCubeMap" /\ _xrLightProbe # Null /\ canvasContexts # {})
        => /\ \E i \in DOMAIN ev'.calls : ev'.calls[i].fn = "getReflectionCubeMap"
           /\ \E i \in DOMAIN ev'.calls : ev'.calls[i].fn = "addEventListener"]_vars

\* C15 as amended: with a probe stored, the guard (an assignment of null
\* used as the condition) is false on every read: the read sets the field
\* to null, makes no host call, registers no listener and returns null.
C15_GuardAlwaysFalse ==
    [][(ev'.op = "reflectionCubeMap" /\ _xrLightProbe # Null)
        => /\ ev'.calls = <<>>
           /\ ev'.val = Null
           /\ _reflectionCubeMap' = Null
           /\ UNCHANGED <<_xrWebGLBinding, listeners, texturesMade, cubeMapCalls>>]_vars

C15_Witness ==
    /\ ev.op = "reflectionCubeMap"
    /\ _xrLightProbe # Null
    /\ canvasContexts # {}
    /\ Len(accessLog) = MaxAccess
    /\ listeners = {}

\* C16: dispose() leaves the stored estimate as it was and clears the probe
\* handle, so after it xrLightProbe gives null while xrLightingEstimate
\* still gives the last sampled estimate.
C16_DisposeKeepsEstimate ==
    [][ev'.op = "dispose"
        => /\ xrLightingEstimate' = xrLightingEstimate
           /\ xrLightProbe' = Null]_vars

C16_Witness ==
    /\ ev.op = "dispose"
    /\ isDisposed
    /\ xrLightProbe = Null
    /\ xrLightingEstimate # Null

\* C17: prepareDefines sets RENDER_WITH_IBL_SHADOWS to the plugin's enabled
\* flag as it is at the call; bindForSubMesh, when the plugin is enabled,
\* binds iblShadowsTexture and writes renderTargetSize (the engine's render
\* width and height) and shadowOpacity, and when it is disabled makes no
\* call on the uniform buffer and leaves it as it was.
C17_EnabledGatesDefineAndBindings ==
    [][/\ pev'.op = "prepareDefines"
           => defines'.RENDER_WITH_IBL_SHADOWS = plugin._isEnabled
       /\ pev'.op = "bindForSubMesh"
           => IF plugin._isEnabled
              THEN /\ pev'.calls = <<"bindTexture", "updateFloat2", "updateFloat">>
                   /\ uniformBuffer'.iblShadowsTexture = plugin.iblShadowsTexture
                   /\ uniformBuffer'.renderTargetSize = renderSize
                   /\ uniformBuffer'.shadowOpacity = plugin.shadowOpacity
              ELSE /\ pev'.calls = <<>>
                   /\ uniformBuffer' = uniformBuffer]_vars

C17_Witness ==
    /\ pev.op = "bindForSubMesh"
    /\ ~plugin._isEnabled
    /\ pev.calls = <<>>
    /\ uniformBuffer # EmptyUniformBuffer
    /\ uniformBuffer.shadowOpacity # plugin.shadowOpacity
    /\ defines.RENDER_WITH_IBL_SHADOWS

\* C18: getCustomCode gives null for shaderType "vertex"; for any other
\* shaderType, in WGSL and in GLSL, it gives a map holding
\* CUSTOM_FRAGMENT_DEFINITIONS and exactly one injection point:
\* CUSTOM_FRAGMENT_BEFORE_FINALCOLORCOMPOSITION on a PBRBaseMaterial,
\* CUSTOM_FRAGMENT_BEFORE_FRAGCOLOR on any other material.
C18_CustomCodeInjectionPoints ==
    pev.op = "getCustomCode"
    => IF pev.shaderType = "vertex"
       THEN pev.isNull
       ELSE /\ ~pev.isNull
            /\ DOMAIN pev.frag =
                   {"CUSTOM_FRAGMENT_DEFINITIONS",
                    IF plugin.material = "PBRBaseMaterial"
                    THEN "CUSTOM_FRAGMENT_BEFORE_FINALCOLORCOMPOSITION"
                    ELSE "CUSTOM_FRAGMENT_BEFORE_FRAGCOLOR"}

C18_Witness ==
    /\ pev.op = "getCustomCode"
    /\ pev.shaderType = "compute"
    /\ pev.shaderLanguage = "WGSL"
    /\ plugin.material = "PBRBaseMaterial"
    /\ "CUSTOM_FRAGMENT_BEFORE_FINALCOLORCOMPOSITION" \in DOMAIN pev.frag

\* C19: for every module the map callback has handled: the dist folder name
\* is settings.build.distOutputDirectory when defined and the module name
\* otherwise; distDirectory and localDevUMDDirectory use that name, while
\* localDevES6Directory, sourceES6Directory, distES6Directory and
\* packageES6Directory use the module name; packageJSONPath is rootFolder
\* joined with settings.build.packageJSON when that is set (a non-empty
\* string) and distDirectory/package.json otherwise; every library's
\* computed.entryPath is srcDirectory joined with its entry.
C19_ModulePaths ==
    /\ Len(settingsComputed) = mapIndex
    /\ \A i \in 1..mapIndex :
        LET module == configJson.modules[i]
            settings == configJson.settings[module]
            folders == configComputed
            done == settingsComputed[i]
            c == done.computed
            distOut == settings.build.distOutputDirectory
            distFolder == IF distOut = Undefined THEN <<module>> ELSE distOut.value
            pkg == settings.build.packageJSON
        IN  /\ done.module = module
            /\ c.distDirectory = PathJoin(folders.outputFolder, distFolder)
            /\ c.localDevUMDDirectory = PathJoin(folders.localDevUMDFolder, distFolder)
            /\ c.localDevES6Directory = PathJoin(folders.localDevES6Folder, <<module>>)
            /\ c.sourceES6Directory = PathJoin(folders.sourceES6Folder, <<module>>)
            /\ c.distES6Directory = PathJoin(folders.distES6Folder, <<module>>)
            /\ c.packageES6Directory = PathJoin(folders.packageES6Folder, <<module>>)
            /\ c.packageJSONPath =
                   IF pkg \notin {Undefined, Defined(<<>>)}
                   THEN PathJoin(folders.rootFolder, pkg.value)
                   ELSE PathJoin(c.distDirectory, <<"package.json">>)
            /\ DOMAIN done.libraries = DOMAIN settings.libraries
            /\ \A k \in DOMAIN settings.libraries :
                   done.libraries[k].computed.entryPath =
                       PathJoin(c.srcDirectory, settings.libraries[k].entry)

C19_Witness ==
    /\ mapIndex = 2
    /\ mapIndex = Len(configJson.modules)
    /\ configJson.settings["core"].build.distOutputDirectory = Defined(<<"out">>)
    /\ configJson.settings["core"].build.packageJSON = Defined(<<"package.json">>)
    /\ configJson.settings["gui"].build.distOutputDirectory = Undefined
    /\ configJson.settings["gui"].build.packageJSON = Defined(<<>>)
    /\ Len(configJson.settings["gui"].libraries) = 2
    /\ settingsComputed[1].computed.localDevUMDDirectory
           = <<"/", "repo", ".temp", "localDevUMD", "out">>
    /\ settingsComputed[1].computed.packageJSONPath = <<"/", "repo", "package.json">>
    /\ settingsComputed[2].computed.packageJSONPath
           = <<"/", "repo", "dist", "preview release", "gui", "package.json">>

====
